---------------------------- MODULE Spec2Model ----------------------------
(***************************************************************************)
(* K-fold cross-validation "the explicit way": the code cell of the        *)
(* k-folds notebook (src/unnamed/part_000, lines 45-93).                   *)
(*                                                                         *)
(* The cell is a script over the notebook's globals.  One execution of it  *)
(* is one cross-validation call: it builds the index list, shuffles it     *)
(* with the process-wide random source, and loops over the K folds; each   *)
(* iteration splits the indices, fits the one estimator `est`, scores it   *)
(* on the training and on the test rows and appends both scores to the     *)
(* global result lists.                                                    *)
(*                                                                         *)
(* The estimator (sklearn's LinearRegression) is external: fit and score   *)
(* either return or raise.  A score is kept symbolically, as the pair of   *)
(* the rows the estimator was fitted on and the rows it was scored on.     *)
(***************************************************************************)
EXTENDS Integers, Sequences, FiniteSets

\* Largest number of samples, len(items), the model explores.
MaxN == 5
\* Largest number of folds K the model explores (the cell sets K = 5).
MaxK == 5
\* Largest number of samples for which the cell is executed repeatedly.
MaxRerunN == 3

VARIABLES
    items,          \* the feature rows (X), one per sample
    age,            \* the target values (y), one per sample
    n,              \* len(items): number of rows of the data
    K,              \* line 46: number of folds
    pc,             \* position in the cell
    k,              \* line 63: the loop variable
    inds,           \* lines 59-60: list of indexes
    train,          \* line 67: training indexes of the current fold (a list)
    test,           \* line 70: test indexes of the current fold (set(inds) - set(train))
    X_train,        \* line 73: items.iloc[train]
    X_test,         \* line 73: items.iloc[test]
    y_train,        \* line 74: age.iloc[train]
    y_test,         \* line 74: age.iloc[test]
    est,            \* line 53: the estimator object
    cur_train_r2,   \* line 80: _train_r2
    cur_test_r2,    \* line 81: _test_r2
    train_r2,       \* line 49: results placeholder
    test_r2,        \* line 50: results placeholder
    err,            \* the exception the cell ended with, if any
    folds,          \* history: the (train, test) pairs the loop produced, in order
    log,            \* history: the calls made on the estimator, in order
    prev            \* history: what the previous execution of the cell produced

vars == <<items, age, n, K, pc, k, inds, train, test, X_train, X_test, y_train, y_test,
          est, cur_train_r2, cur_test_r2, train_r2, test_r2, err, folds, log, prev>>

---------------------------------------------------------------------------
(* Pure helpers *)

Range(s) == {s[i] : i \in 1..Len(s)}

\* line 59: list(range(len(items)))
RangeList(m) == [i \in 1..m |-> i - 1]

\* line 60: the lists random.shuffle may leave in `lst`: any reordering of it.
Shuffled(lst) ==
    {s \in [1..Len(lst) -> Range(lst)] : \A a, b \in 1..Len(lst) : a # b => s[a] # s[b]}

\* line 67, mutated: enumerate counted from 1 instead of 0.
TrainOfFromOne(I, KK, kk) ==
    LET F[m \in 0..Len(I)] ==
            IF m = 0 THEN <<>>
            ELSE IF m % KK # kk THEN Append(F[m - 1], I[m]) ELSE F[m - 1]
    IN  F[Len(I)]

\* line 67, mutated: the conditional inverted (== instead of !=).
TrainOfInverted(I, KK, kk) ==
    LET F[m \in 0..Len(I)] ==
            IF m = 0 THEN <<>>
            ELSE IF (m - 1) % KK = kk THEN Append(F[m - 1], I[m]) ELSE F[m - 1]
    IN  F[Len(I)]

\* line 67, mutated: the kept indexes are collected in reverse order.
TrainOfReversed(I, KK, kk) ==
    LET F[m \in 0..Len(I)] ==
            IF m = 0 THEN <<>>
            ELSE IF (m - 1) % KK # kk THEN <<I[m]>> \o F[m - 1] ELSE F[m - 1]
    IN  F[Len(I)]

\* line 67: train = [x for (i, x) in enumerate(inds) if i % K != k]
\* (position m of the TLA+ sequence is Python's i = m - 1).
TrainOf(I, KK, kk) ==
    LET F[m \in 0..Len(I)] ==
            IF m = 0 THEN <<>>
            ELSE IF (m - 1) % KK # kk THEN Append(F[m - 1], I[m]) ELSE F[m - 1]
    IN  F[Len(I)]

\* line 70, mutated: the training indexes are not taken out.
TestOfNoDifference(I, tr) == Range(I)

\* line 70: test = list(set(inds) - set(train)).  The order of the list is the
\* iteration order of a Python set; the model keeps the set.
TestOf(I, tr) == Range(I) \ Range(tr)

\* The data of the notebook: sample i has feature row x_i and target y_i.
Items(m) == [i \in 1..m |-> [x |-> i - 1]]
Age(m) == [i \in 1..m |-> [y |-> i - 1]]

\* lines 73-74: frame.iloc[list]: a new frame holding the rows at the listed
\* positions, in the order of the list; the frame itself is only read.
ILoc(frame, idx) == [j \in 1..Len(idx) |-> frame[idx[j] + 1]]

\* lines 73-74: frame.iloc[test]; `test` is kept as a set, and so are its rows.
ILocSet(frame, idx) == {frame[i + 1] : i \in idx}

\* The estimator object of line 53, before any fit.
NewEstimator == [fitted |-> FALSE, on |-> <<>>]

\* est.score(...): the value depends on the rows the estimator was fitted on
\* and on the rows it is scored on; it is kept as that pair.
ScoreTrainValue(e, rows) == [fit |-> e.on, on |-> rows]
ScoreTestValue(e, rows) == [fit |-> e.on, onset |-> rows]

NoError == [kind |-> "none"]
\* An exception raised inside est.fit / est.score leaves the cell as it is.
Raised == [kind |-> "EstimatorRaised"]

NoRun == [ran |-> FALSE, done |-> FALSE, folds |-> <<>>, train_r2 |-> <<>>, test_r2 |-> <<>>]

---------------------------------------------------------------------------
(* The state after lines 45-59 *)

Init ==
    /\ n \in 0..MaxN
    /\ items = Items(n)
    /\ age = Age(n)
    /\ X_train = <<>>
    /\ X_test = {}
    /\ y_train = <<>>
    /\ y_test = {}
    /\ K \in 0..MaxK
    /\ pc = "shuffle"
    /\ k = 0
    /\ inds = RangeList(n)
    /\ train = <<>>
    /\ test = {}
    /\ est = NewEstimator
    /\ cur_train_r2 = ScoreTrainValue(NewEstimator, <<>>)
    /\ cur_test_r2 = ScoreTestValue(NewEstimator, {})
    /\ train_r2 = <<>>
    /\ test_r2 = <<>>
    /\ err = NoError
    /\ folds = <<>>
    /\ log = <<>>
    /\ prev = NoRun

\* line 60: shuffle(inds), with the module-level functions of `random`
\* (the process-wide generator, never seeded by the cell).
Shuffle ==
    /\ pc = "shuffle"
    /\ inds' \in Shuffled(inds)
    /\ pc' = "loop"
    /\ UNCHANGED <<items, age, X_train, X_test, y_train, y_test,
                   n, K, k, train, test, est, cur_train_r2, cur_test_r2,
                   train_r2, test_r2, err, folds, log, prev>>

\* lines 73-74, mutated: the frames are re-bound to their rows in shuffled order
\* before the selection (items = items.iloc[inds]).
SplitReordersData ==
    /\ pc = "loop"
    /\ k < K
    /\ train' = TrainOf(inds, K, k)
    /\ test' = TestOf(inds, train')
    /\ items' = ILoc(items, inds)
    /\ age' = ILoc(age, inds)
    /\ X_train' = ILoc(items', train')
    /\ X_test' = ILocSet(items', test')
    /\ y_train' = ILoc(age', train')
    /\ y_test' = ILocSet(age', test')
    /\ folds' = Append(folds, [train |-> train', test |-> test'])
    /\ pc' = "fit"
    /\ UNCHANGED <<n, K, k, inds, est, cur_train_r2, cur_test_r2,
                   train_r2, test_r2, err, log, prev>>

\* lines 63-74: next iteration of `for k in range(K)`; train and test of fold k.
Split ==
    /\ pc = "loop"
    /\ k < K
    /\ train' = TrainOf(inds, K, k)
    /\ test' = TestOf(inds, train')
    /\ X_train' = ILoc(items, train')
    /\ X_test' = ILocSet(items, test')
    /\ y_train' = ILoc(age, train')
    /\ y_test' = ILocSet(age, test')
    /\ folds' = Append(folds, [train |-> train', test |-> test'])
    /\ pc' = "fit"
    /\ UNCHANGED <<items, age, n, K, k, inds, est, cur_train_r2, cur_test_r2,
                   train_r2, test_r2, err, log, prev>>

\* The record of one call on the estimator: which fold made it, on which rows,
\* and whether the object had been fitted before the call.
Call(op, rows) == [op |-> op, fold |-> k, rows |-> rows, wasFitted |-> est.fitted]

\* line 77, mutated: an object that is already fitted keeps its parameters.
FitOkKeepsFirstFit ==
    /\ pc = "fit"
    /\ log' = Append(log, Call("fit", Range(train)))
    /\ est' = (IF est.fitted THEN est ELSE [fitted |-> TRUE, on |-> train])
    /\ pc' = "score_train"
    /\ UNCHANGED <<items, age, X_train, X_test, y_train, y_test,
                   n, K, k, inds, train, test, cur_train_r2, cur_test_r2,
                   train_r2, test_r2, err, folds, prev>>

\* line 77: est.fit(X_train, y_train) returns; the object now holds the fit on
\* the rows of `train`.
FitOk ==
    /\ pc = "fit"
    /\ log' = Append(log, Call("fit", Range(train)))
    /\ est' = [fitted |-> TRUE, on |-> train]
    /\ pc' = "score_train"
    /\ UNCHANGED <<items, age, X_train, X_test, y_train, y_test,
                   n, K, k, inds, train, test, cur_train_r2, cur_test_r2,
                   train_r2, test_r2, err, folds, prev>>

\* An exception raised by fit or score is not caught anywhere in the cell:
\* the cell stops there, and the globals keep what they hold.
RaiseIn(op, rows) ==
    /\ log' = Append(log, Call(op, rows))
    /\ err' = Raised
    /\ pc' = "failed"
    /\ UNCHANGED <<items, age, X_train, X_test, y_train, y_test,
                   n, K, k, inds, train, test, est, cur_train_r2, cur_test_r2,
                   train_r2, test_r2, folds, prev>>

\* line 77: est.fit(X_train, y_train) raises.
FitRaises ==
    /\ pc = "fit"
    /\ RaiseIn("fit", Range(train))

\* line 80: _train_r2 = est.score(X_train, y_train)
ScoreTrainOk ==
    /\ pc = "score_train"
    /\ log' = Append(log, Call("score", Range(train)))
    /\ cur_train_r2' = ScoreTrainValue(est, train)
    /\ pc' = "score_test"
    /\ UNCHANGED <<items, age, X_train, X_test, y_train, y_test,
                   n, K, k, inds, train, test, est, cur_test_r2,
                   train_r2, test_r2, err, folds, prev>>

\* line 80: est.score(X_train, y_train) raises.
ScoreTrainRaises ==
    /\ pc = "score_train"
    /\ RaiseIn("score", Range(train))

\* line 81: _test_r2 = est.score(X_test, y_test)
ScoreTestOk ==
    /\ pc = "score_test"
    /\ log' = Append(log, Call("score", test))
    /\ cur_test_r2' = ScoreTestValue(est, test)
    /\ pc' = "append_train"
    /\ UNCHANGED <<items, age, X_train, X_test, y_train, y_test,
                   n, K, k, inds, train, test, est, cur_train_r2,
                   train_r2, test_r2, err, folds, prev>>

\* line 81: est.score(X_test, y_test) raises.
ScoreTestRaises ==
    /\ pc = "score_test"
    /\ RaiseIn("score", test)

\* line 84, mutated: the score is put at the front of the list.
AppendTrainPrepends ==
    /\ pc = "append_train"
    /\ train_r2' = <<cur_train_r2>> \o train_r2
    /\ pc' = "append_test"
    /\ UNCHANGED <<items, age, X_train, X_test, y_train, y_test,
                   n, K, k, inds, train, test, est, cur_train_r2, cur_test_r2,
                   test_r2, err, folds, log, prev>>

\* line 84: train_r2.append(_train_r2)
AppendTrain ==
    /\ pc = "append_train"
    /\ train_r2' = Append(train_r2, cur_train_r2)
    /\ pc' = "append_test"
    /\ UNCHANGED <<items, age, X_train, X_test, y_train, y_test,
                   n, K, k, inds, train, test, est, cur_train_r2, cur_test_r2,
                   test_r2, err, folds, log, prev>>

\* line 85, mutated: the loop moves on by two folds.
AppendTestSkipsFold ==
    /\ pc = "append_test"
    /\ test_r2' = Append(test_r2, cur_test_r2)
    /\ k' = k + 2
    /\ pc' = "loop"
    /\ UNCHANGED <<items, age, X_train, X_test, y_train, y_test,
                   n, K, inds, train, test, est, cur_train_r2, cur_test_r2,
                   train_r2, err, folds, log, prev>>

\* line 85: test_r2.append(_test_r2); the body ends and `for` takes the next k.
AppendTest ==
    /\ pc = "append_test"
    /\ test_r2' = Append(test_r2, cur_test_r2)
    /\ k' = k + 1
    /\ pc' = "loop"
    /\ UNCHANGED <<items, age, X_train, X_test, y_train, y_test,
                   n, K, inds, train, test, est, cur_train_r2, cur_test_r2,
                   train_r2, err, folds, log, prev>>

\* lines 63, 88-93: range(K) is exhausted; the means are computed and printed.
Finish ==
    /\ pc = "loop"
    /\ k >= K
    /\ pc' = "done"
    /\ UNCHANGED <<items, age, X_train, X_test, y_train, y_test,
                   n, K, k, inds, train, test, est, cur_train_r2, cur_test_r2,
                   train_r2, test_r2, err, folds, log, prev>>

\* The cell is executed again on the same data: lines 45-59 run anew (new result
\* lists, a new estimator object, a new index list).  Nothing touches the
\* process-wide random generator in between.  The other globals keep their values.
Rerun ==
    /\ pc \in {"done", "failed"}
    /\ prev' = [ran |-> TRUE, done |-> pc = "done", folds |-> folds,
                train_r2 |-> train_r2, test_r2 |-> test_r2]
    /\ train_r2' = <<>>
    /\ test_r2' = <<>>
    /\ est' = NewEstimator
    /\ inds' = RangeList(n)
    /\ k' = 0
    /\ err' = NoError
    /\ folds' = <<>>
    /\ log' = <<>>
    /\ pc' = "shuffle"
    /\ UNCHANGED <<items, age, X_train, X_test, y_train, y_test,
                   n, K, train, test, cur_train_r2, cur_test_r2>>

\* One execution of the cell.
Next ==
    \/ Shuffle
    \/ Split
    \/ FitOk
    \/ FitRaises
    \/ ScoreTrainOk
    \/ ScoreTrainRaises
    \/ ScoreTestOk
    \/ ScoreTestRaises
    \/ AppendTrain
    \/ AppendTest
    \/ Finish

Spec == Init /\ [][Next]_vars

\* The cell executed again and again on the same (small) data.
InitRerun == Init /\ n <= MaxRerunN

NextRerun == Next \/ Rerun

SpecRerun == InitRerun /\ [][NextRerun]_vars

---------------------------------------------------------------------------
(* Shorthands of the properties below *)

\* The arguments the partitioner accepts: n >= k >= 2.
ValidArgs == n >= K /\ K >= 2

\* The cell has ended, normally or with an exception.
Ended == pc \in {"done", "failed"}

\* The entries of the shuffled list at the positions p (counted from 0)
\* with p mod K = j.
ModClass(j) == {inds[p] : p \in {q \in 1..Len(inds) : (q - 1) % K = j}}

AllIndexes == 0..(n - 1)

FitCalls == {i \in 1..Len(log) : log[i].op = "fit"}

Min(a, b) == IF a < b THEN a ELSE b

---------------------------------------------------------------------------
(* C1 - Fresh estimator per fold: in a call with valid arguments, whenever   *)
(* fit is invoked, the estimator object it is invoked on has never been      *)
(* fitted before (no object fitted in an earlier fold is fitted again).      *)
C1_FreshEstimatorPerFold ==
    ValidArgs => \A i \in FitCalls : ~log[i].wasFitted

(* C2 - Coverage: for n >= k >= 2 and every outcome of the shuffle, the test *)
(* folds produced are pairwise disjoint, and once all k are produced their   *)
(* union is {0..n-1}: every index is in exactly one test fold.               *)
C2_Coverage ==
    ValidArgs =>
        /\ \A a, b \in 1..Len(folds) : a # b => folds[a].test \cap folds[b].test = {}
        /\ Len(folds) = K =>
              /\ UNION {folds[j].test : j \in 1..K} = AllIndexes
              /\ \A i \in AllIndexes :
                    Cardinality({j \in 1..K : i \in folds[j].test}) = 1

\* C2's case: a shuffled list of more than k indexes, all k folds produced.
C2_Witness ==
    /\ ValidArgs
    /\ n > K
    /\ inds # RangeList(n)
    /\ Len(folds) = K

(* C3 - Determinism: two executions with the same configuration on the same  *)
(* data produce the same fold sequence, whatever the state of the            *)
(* process-wide random generator, and, when both complete, the same score    *)
(* vectors.                                                                  *)
C3_Determinism ==
    (ValidArgs /\ prev.ran) =>
        /\ \A j \in 1..Min(Len(prev.folds), Len(folds)) : folds[j] = prev.folds[j]
        /\ (prev.done /\ pc = "done") =>
              (train_r2 = prev.train_r2 /\ test_r2 = prev.test_r2)

C5_Balance ==
    ValidArgs =>
        /\ \A j \in 1..Len(folds) :
              Cardinality(folds[j].test) =
                  IF j - 1 < n % K THEN (n + K - 1) \div K ELSE n \div K
        /\ \A a, b \in 1..Len(folds) :
              Cardinality(folds[a].test) - Cardinality(folds[b].test) \in {-1, 0, 1}

\* C5's case: k does not divide n, and folds of both sizes have been produced.
C5_Witness ==
    /\ ValidArgs
    /\ n % K # 0
    /\ Len(folds) = K
    /\ Cardinality(folds[1].test) = Cardinality(folds[K].test) + 1

(* C6 - Fit and score counts: the calls on the estimator are, fold after     *)
(* fold and with no fold repeated or skipped, one fit on the fold's training *)
(* rows, one score on the training rows, one score on the test rows; a       *)
(* completed execution has made exactly k fits and 2k scores.                *)
C6_FitAndScoreCounts ==
    /\ \A i \in 1..Len(log) :
          LET j == (i - 1) \div 3
              step == (i - 1) % 3
          IN  /\ log[i].fold = j
              /\ j + 1 <= Len(folds)
              /\ log[i].op = (IF step = 0 THEN "fit" ELSE "score")
              /\ log[i].rows = (IF step = 2 THEN folds[j + 1].test
                                            ELSE Range(folds[j + 1].train))
    /\ pc = "done" =>
          /\ Len(log) = 3 * K
          /\ Cardinality(FitCalls) = K

\* C6's case: an execution with several folds has completed.
C6_Witness ==
    /\ pc = "done"
    /\ ValidArgs
    /\ K >= 3
    /\ Len(log) = 3 * K

(* C7 - Shuffle off is identity: when shuffling is switched off, the index   *)
(* list is used in natural order 0..n-1 and test fold j is                   *)
(* {i in 0..n-1 | i mod k = j}.  The cell reads no shuffle switch, so what   *)
(* it does is the same for either value of it.                               *)
C7_ShuffleOffIdentity ==
    \A shuffle \in BOOLEAN :
        (~shuffle /\ ValidArgs) =>
            /\ pc # "shuffle" => inds = RangeList(n)
            /\ \A j \in 1..Len(folds) :
                  folds[j].test = {i \in AllIndexes : i % K = j - 1}

(* C8 - Argument validation: with n < k or k < 2 the call ends with          *)
(* InvalidArguments and produces no fold; no fold with an empty test set or  *)
(* an empty training set is ever produced.                                   *)
C8_ArgumentValidation ==
    /\ ~ValidArgs =>
          /\ folds = <<>>
          /\ Ended => err.kind = "InvalidArguments"
    /\ \A j \in 1..Len(folds) : folds[j].test # {} /\ folds[j].train # <<>>

(* C9 - Failure is fatal and leaves no partial results: when fit or score    *)
(* fails in fold j of a call with valid arguments, the call ends there with  *)
(* an error, and the scores of folds 0..j-1 are not left observable: the     *)
(* result lists hold nothing.                                                *)
C9_FailureLeavesNoPartialResults ==
    (ValidArgs /\ pc = "failed") =>
        /\ err # NoError
        /\ train_r2 = <<>>
        /\ test_r2 = <<>>

(* C10 - Validation precedes training: in a call with invalid arguments      *)
(* (k < 2 or n < k) the number of fit calls made is zero.  (That such a call *)
(* ends with InvalidArguments is part of C8.)                                *)
C10_ValidationPrecedesTraining ==
    ~ValidArgs => FitCalls = {}

(* C11 - Result ordering and length, as claimed: in a call with valid        *)
(* arguments both result vectors have, at every point of the loop, the same  *)
(* length, the number of completed folds; on return they have k entries, and *)
(* entry j of each is the score of fold j.                                   *)
C11_SameLengthAtEveryPoint ==
    ValidArgs =>
        /\ Len(train_r2) = Len(test_r2)
        /\ pc = "done" => (Len(train_r2) = K /\ Len(test_r2) = K)
        /\ \A j \in 1..Len(train_r2) :
              train_r2[j] = [fit |-> folds[j].train, on |-> folds[j].train]
        /\ \A j \in 1..Len(test_r2) :
              test_r2[j] = [fit |-> folds[j].train, onset |-> folds[j].test]

(* C11, amended - on return both vectors have k entries and entry j of each  *)
(* is the score of fold j (fitted on train_j; scored on train_j, on test_j); *)
(* test_r2 always holds one entry per completed fold, and train_r2 has the   *)
(* same length except between the two appends of lines 84-85, where it is    *)
(* one entry longer.                                                         *)
C11_ResultOrderingAndLength ==
    ValidArgs =>
        /\ Len(test_r2) = k
        /\ Len(train_r2) = (IF pc = "append_test" THEN k + 1 ELSE k)
        /\ pc = "done" => (Len(train_r2) = K /\ Len(test_r2) = K)
        /\ \A j \in 1..Len(train_r2) :
              train_r2[j] = [fit |-> folds[j].train, on |-> folds[j].train]
        /\ \A j \in 1..Len(test_r2) :
              test_r2[j] = [fit |-> folds[j].train, onset |-> folds[j].test]

\* C11's case: a completed call of several folds on a shuffled list.
C11_Witness ==
    /\ ValidArgs
    /\ pc = "done"
    /\ K >= 3
    /\ inds # RangeList(n)
    /\ Len(train_r2) = K

C18_ScoresBelongToCurrentFit ==
    /\ \A i \in 1..Len(log) :
          log[i].op = "score" =>
              \E f \in 1..(i - 1) :
                  /\ log[f].op = "fit"
                  /\ log[f].fold = log[i].fold
                  /\ \A g \in (f + 1)..(i - 1) : log[g].op # "fit"
    /\ pc \in {"score_train", "score_test", "append_train", "append_test"} =>
          (est.fitted /\ est.on = folds[k + 1].train)
    /\ pc \in {"score_test", "append_train", "append_test"} =>
          cur_train_r2.fit = folds[k + 1].train
    /\ pc \in {"append_train", "append_test"} =>
          cur_test_r2.fit = folds[k + 1].train
    /\ \A j \in 1..Len(train_r2) : train_r2[j].fit = folds[j].train
    /\ \A j \in 1..Len(test_r2) : test_r2[j].fit = folds[j].train
    /\ \A i \in FitCalls :
          Len(train_r2) >= log[i].fold /\ Len(test_r2) >= log[i].fold

\* C18's case: both scores of a later fold computed, the second about to be
\* recorded, the training lists of the folds being different.
C18_Witness ==
    /\ ValidArgs
    /\ pc = "append_test"
    /\ k >= 1
    /\ folds[k + 1].train # folds[1].train

Pos(seq, x) == CHOOSE q \in 1..Len(seq) : seq[q] = x

=============================================================================
